---- MODULE Spec2Model ----
(***************************************************************************)
(* Model of the work pool of export_audio_tree (WorkPool, workpool.go) and *)
(* of the goroutines that use it.                                          *)
(*                                                                         *)
(* Client goroutines call Start, Stop, Wait and Add; worker goroutines run *)
(* WorkPool.worker.  A Go panic ends the whole process: once panicked is   *)
(* set no goroutine takes another step.                                    *)
(***************************************************************************)
EXTENDS Integers, Sequences, FiniteSets, TLC

\* ---------------------------------------------------------------- bounds
NClients == 2       \* goroutines that call the pool's methods
MaxTasks == 2       \* callbacks handed to Add() in one run of a pool on its own
MaxFiles == 3       \* callbacks handed to Add() in one run of the Exporter
MaxLimit == 2       \* largest [limit] argument of NewWorkPool
MaxBuffer == 2      \* largest [buffer] argument of NewWorkPool
MaxGrowLimit == 6   \* largest [limit] argument where growth is examined
NumCPU == 1         \* runtime.NumCPU() of the host

\* ------------------------------------------------------ program constants
GrowthBatch == 4    \* expand(): min(4, p.limit-p.size)
DefaultBuffer == 100 \* NewWorkPool: max(limit, 100)

Clients == 1..NClients
Tasks == 1..MaxFiles

Min(a, b) == IF a < b THEN a ELSE b
Max(a, b) == IF a > b THEN a ELSE b

NoPanic == "none"
PanicInit == "init called on running WorkPool!"
PanicStop == "WorkPool.Stop called when already stopped"
PanicNotRunning == "WorkPool is not running"
PanicSendClosed == "send on closed channel"
PanicCloseClosed == "close of closed channel"

VARIABLES
    limit,        \* p.limit
    buffer,       \* p.buffer
    size,         \* p.size
    mutex,        \* p.mutex: 0 when free, else the client holding it
    queue,        \* p.queue: the channel [buf, cap, closed, sendq] it refers to
    cancelled,    \* p.cancel() has been called
    parentDone,   \* the parent context is cancelled
    wg,           \* p.wg: the wait group's counter
    atSelect,     \* number of worker goroutines at the select of worker()
    running,      \* running[t]: number of workers inside fn() of task t
    pc,           \* pc[c]: where client c is inside a pool method
    arg,          \* arg[c]: the callback client c is adding (0: none)
    panicked,     \* the panic that ended the process, or NoPanic
    nextTask,     \* next fresh callback
    \* history of the run
    accepted,     \* callbacks whose Add() returned
    nexec,        \* nexec[t]: times fn() of task t was started
    discarded,    \* callbacks drained unexecuted by Stop()
    dropped,      \* callbacks left in a queue that init() replaced
    stopped,      \* Stop() returned and Start() was not called since
    restarted,    \* Start() ran after a Stop()
    waited,       \* Wait() has returned
    waitSnap,     \* callbacks accepted, and not yet discarded, when Wait() was called
    stopQueued,   \* callbacks in the queue when Stop() signalled cancellation
    stopInflight, \* callbacks executing when Stop() signalled cancellation
    \* the Exporter that owns the pool
    inTree,       \* the tree under p.InRoot, in the order fs.WalkDir visits it
    copyUnknown,  \* p.opts.CopyUnknown
    fault,        \* the filesystem failure of this run
    phase,        \* where Run() is
    walkIdx,      \* the entry of inTree the running fs.WalkDir is at
    outDirs,      \* the directories under p.OutRoot
    runErr,       \* what Run() returned
    reported,     \* fs.WalkDir has called the visit function with an error
    taskOf,       \* taskOf[t]: the entry of inTree task t converts or copies
    taskKind,     \* taskKind[t]: which closure visitFile() handed to Add()
    format,       \* p.opts.Format
    noClobber,    \* p.opts.NoClobber
    outFiles,     \* the files under p.OutRoot, each with its content
    failed,       \* the tasks whose Convert() or Copy() returned an error
    transcoded,   \* the entries of inTree ffmpeg was run on
    \* the construction of the pool
    ctor,         \* the NewWorkPool call under examination, and whether it returned
    trashCall,    \* the IsTrashFile call under examination, and what it returned
    validateCall  \* the ExporterOptions.Validate call under examination

poolVars == <<limit, buffer, size, mutex, queue, cancelled, parentDone, wg>>
workerVars == <<atSelect, running>>
clientVars == <<pc, arg, nextTask>>
histVars == <<accepted, nexec, discarded, dropped, stopped, restarted, waited,
              waitSnap, stopQueued, stopInflight>>
expVars == <<inTree, copyUnknown, fault, phase, walkIdx, outDirs, runErr,
             reported, taskOf, taskKind, format, noClobber, outFiles,
             failed, transcoded, ctor, trashCall,
                   validateCall>>
vars == <<poolVars, workerVars, clientVars, panicked, histVars, expVars>>

\* ------------------------------------------------------------- channels
\* Variant: the channel is made without a buffer.
MakeChanUnbuffered(n) == [buf |-> <<>>, cap |-> 0, closed |-> FALSE, sendq |-> <<>>]

\* make(chan func(), n): buf is the buffer, sendq the goroutines blocked in
\* a send, in the order in which they blocked.
MakeChan(n) == [buf |-> <<>>, cap |-> n, closed |-> FALSE, sendq |-> <<>>]

\* The tasks sitting in a channel's buffer.
Pending(ch) == {ch.buf[i] : i \in 1..Len(ch.buf)}

\* The goroutines blocked in a send on a channel.
Senders(ch) == {ch.sendq[i] : i \in 1..Len(ch.sendq)}

\* Variant: close(ch) leaves the channel open.
CloseChanLeftOpen(ch) == ch

\* close(ch) on an open channel: the buffer stays readable, every blocked
\* sender is woken and will panic.
CloseChan(ch) == [ch EXCEPT !.closed = TRUE, !.sendq = <<>>]

\* ctx.Done() is readable: ctx was derived from parent by WithCancel, and
\* p.cancel cancels it.
CtxDone == cancelled \/ parentDone

\* The tasks some worker is executing.
InFlight == {t \in Tasks : running[t] > 0}

RECURSIVE SumRunning(_)
SumRunning(n) == IF n = 0 THEN 0 ELSE running[n] + SumRunning(n - 1)

\* Number of live worker goroutines.
Live == atSelect + SumRunning(MaxFiles)

\* ------------------------------------------------------------ accessors
\* Variant: the queue's length is taken for its free room.
RemainingIsLen == Len(queue.buf)

\* func (p *WorkPool) Remaining() int
Remaining == queue.cap - Len(queue.buf)

\* func (p *WorkPool) PercentFull() float64, as the exact fraction num/den:
\* float64(len(p.queue)) / float64(cap(p.queue)) * 100.0
PercentFull == [num |-> Len(queue.buf) * 100, den |-> queue.cap]

\* func (p *WorkPool) Size() int: p.size read under the mutex
Size == size

\* func (p *WorkPool) Limit() int
Limit == limit

\* ---------------------------------------------------------- NewWorkPool
\* if limit == 0 { limit = runtime.NumCPU() }, on a host of ncpu CPUs
DefaultLimitOn(ncpu, l) == IF l = 0 THEN ncpu ELSE l
DefaultLimit(l) == DefaultLimitOn(NumCPU, l)
DefaultBuf(l, b) == IF b = 0 THEN Max(l, DefaultBuffer) ELSE b

NewWorkPool(l, b) ==
    /\ limit = DefaultLimit(l)
    /\ buffer = DefaultBuf(DefaultLimit(l), b)
    /\ queue = MakeChan(DefaultBuf(DefaultLimit(l), b))
    /\ size = 0
    /\ mutex = 0
    /\ cancelled = FALSE
    /\ parentDone = FALSE
    /\ wg = 0

\* No goroutine has touched the pool yet.
NoGoroutines ==
    /\ atSelect = 0
    /\ running = [t \in Tasks |-> 0]
    /\ pc = [c \in Clients |-> "idle"]
    /\ arg = [c \in Clients |-> 0]
    /\ panicked = NoPanic
    /\ nextTask = 1
    /\ accepted = {}
    /\ nexec = [t \in Tasks |-> 0]
    /\ discarded = {}
    /\ dropped = {}
    /\ stopped = FALSE
    /\ restarted = FALSE
    /\ waited = FALSE
    /\ waitSnap = {}
    /\ stopQueued = {}
    /\ stopInflight = {}

\* No IsTrashFile call is under examination.
NoTrashCall == [dir |-> <<>>, base |-> <<>>, done |-> TRUE, result |-> FALSE]

\* No ExporterOptions.Validate call is under examination.
NoValidateCall ==
    [inRoot |-> <<>>, outRoot |-> <<>>, exists |-> {}, done |-> TRUE, err |-> "nil"]

\* No NewWorkPool call is under examination: the pool exists already.
NoCall == [limit |-> 0, buffer |-> 0, ncpu |-> 0, done |-> TRUE]

\* The state after NewWorkPool(l, b) for some l in 0..maxl and b in
\* 0..MaxBuffer, before any goroutine has run.
PoolInit(maxl) ==
    /\ \E l \in 0..maxl, b \in 0..MaxBuffer : NewWorkPool(l, b)
    /\ NoGoroutines
    /\ ctor = NoCall
    /\ trashCall = NoTrashCall
    /\ validateCall = NoValidateCall

\* A fault that never happens.
NoFault == [kind |-> "none", pass |-> "none", at |-> 0]

\* The pool is used on its own: no Exporter was built around it.
NoExporter ==
    /\ inTree = <<>>
    /\ copyUnknown = FALSE
    /\ fault = NoFault
    /\ phase = "none"
    /\ walkIdx = 0
    /\ outDirs = {}
    /\ runErr = "none"
    /\ reported = FALSE
    /\ taskOf = [t \in Tasks |-> 0]
    /\ taskKind = [t \in Tasks |-> "none"]
    /\ format = <<>>
    /\ noClobber = FALSE
    /\ outFiles = {}
    /\ failed = {}
    /\ transcoded = {}

\* A pool built by NewWorkPool and driven directly by its callers.
InitOver(maxl) == PoolInit(maxl) /\ NoExporter

Init == InitOver(MaxLimit)

\* A panic unwinds the goroutine (a deferred Unlock runs) and ends the
\* process: no goroutine takes another step.
Panic(msg) ==
    /\ panicked' = msg
    /\ UNCHANGED <<poolVars, workerVars, clientVars, histVars>>

Alive == panicked = NoPanic

\* Variant: the wait group is not waited for.
WgWaitSkipped == TRUE

\* p.wg.Wait() returns
WgWait == wg = 0

\* ------------------------------------------------------------------ init
\* Variant: init() spawns a worker per slot of the limit, whatever the CPU count.
InitCountAll == Max(limit, 0)

\* Number of workers init() spawns: for i := 0; i < ncpu && i < p.limit; i++
InitCount == Min(NumCPU, Max(limit, 0))

\* init() past its check, called with the mutex held and p.size = 0: a new
\* queue replaces p.queue, and InitCount workers are spawned.
InitPool ==
    /\ queue' = MakeChan(buffer)
    /\ size' = InitCount
    /\ wg' = wg + InitCount
    /\ atSelect' = atSelect + InitCount
    /\ dropped' = dropped \cup Pending(queue)

\* ----------------------------------------------------------------- Start
\* Variant: init() without its running check.
InitOnRunningUnchecked == FALSE

\* init(): if p.size > 0 { panic("init called on running WorkPool!") }
InitOnRunning == size > 0

Start(c) ==
    /\ Alive
    /\ pc[c] = "idle"
    /\ mutex = 0
    /\ IF InitOnRunning
       THEN Panic(PanicInit)
       ELSE /\ InitPool
            /\ stopped' = FALSE
            /\ restarted' = (restarted \/ stopped)
            /\ UNCHANGED <<limit, buffer, mutex, cancelled, parentDone, running,
                           clientVars, panicked, accepted, nexec, discarded,
                           waited, waitSnap, stopQueued, stopInflight>>

\* ------------------------------------------------------------------ Stop
\* Variant: Stop() without its stopped check.
AlreadyStoppedUnchecked == FALSE

\* Stop(): if p.size == 0 { panic("WorkPool.Stop called when already stopped") }
AlreadyStopped == size = 0

\* Stop() up to p.wg.Wait(): the mutex is taken and cancellation signalled.
StopBegin(c) ==
    /\ Alive
    /\ pc[c] = "idle"
    /\ mutex = 0
    /\ IF AlreadyStopped
       THEN Panic(PanicStop)
       ELSE /\ mutex' = c
            /\ cancelled' = TRUE
            /\ pc' = [pc EXCEPT ![c] = "stop_wait"]
            /\ stopQueued' = Pending(queue)
            /\ stopInflight' = InFlight
            /\ UNCHANGED <<limit, buffer, size, queue, parentDone, wg,
                           workerVars, arg, nextTask, panicked, accepted,
                           nexec, discarded, dropped, stopped, restarted,
                           waited, waitSnap>>

\* Stop() from the return of p.wg.Wait(): p.size = 0, the queue is closed
\* and drained without executing, the deferred Unlock runs.
StopFinish(c) ==
    /\ Alive
    /\ pc[c] = "stop_wait"
    /\ WgWait
    /\ IF queue.closed
       THEN Panic(PanicCloseClosed)
       ELSE /\ size' = 0
            /\ queue' = [CloseChan(queue) EXCEPT !.buf = <<>>]
            /\ discarded' = discarded \cup Pending(queue)
            /\ mutex' = 0
            /\ stopped' = TRUE
            /\ pc' = [c2 \in Clients |->
                        IF c2 = c THEN "idle"
                        ELSE IF c2 \in Senders(queue) THEN "add_woken"
                        ELSE pc[c2]]
            /\ UNCHANGED <<limit, buffer, cancelled, parentDone, wg,
                           workerVars, arg, nextTask, panicked, accepted,
                           nexec, dropped, restarted, waited, waitSnap,
                           stopQueued, stopInflight>>

\* ------------------------------------------------------------------ Wait
\* Variant: Wait() waits for the workers with the mutex released.
WaitLockReleased(c) == 0

\* Wait(): p.mutex.Lock() with a deferred Unlock: the caller holds the
\* mutex until Wait() returns.
WaitLock(c) == c

\* Wait() up to p.wg.Wait(): the mutex is taken and the queue closed.
WaitBegin(c) ==
    /\ Alive
    /\ pc[c] = "idle"
    /\ mutex = 0
    /\ IF queue.closed
       THEN Panic(PanicCloseClosed)
       ELSE /\ mutex' = WaitLock(c)
            /\ queue' = CloseChan(queue)
            /\ pc' = [c2 \in Clients |->
                        IF c2 = c THEN "wait_wait"
                        ELSE IF c2 \in Senders(queue) THEN "add_woken"
                        ELSE pc[c2]]
            /\ waitSnap' = accepted \ (discarded \cup dropped)
            /\ UNCHANGED <<limit, buffer, size, cancelled, parentDone, wg,
                           workerVars, arg, nextTask, panicked, accepted,
                           nexec, discarded, dropped, stopped, restarted,
                           waited, stopQueued, stopInflight>>

\* Wait() from the return of p.wg.Wait(): p.size = 0, then init() (which
\* cannot panic, p.size being 0), then the deferred Unlock.
WaitFinish(c) ==
    /\ Alive
    /\ pc[c] = "wait_wait"
    /\ WgWait
    /\ InitPool
    /\ mutex' = 0
    /\ waited' = TRUE
    /\ pc' = [pc EXCEPT ![c] = "idle"]
    /\ UNCHANGED <<limit, buffer, cancelled, parentDone, running, arg,
                   nextTask, panicked, accepted, nexec, discarded, stopped,
                   restarted, waitSnap, stopQueued, stopInflight>>

\* ------------------------------------------------------------------- Add
\* Variant: a full batch is spawned whatever room the limit leaves.
GrowthUnbounded ==
    IF size = limit THEN 0
    ELSE IF Remaining > 0 THEN 0
    ELSE GrowthBatch

\* Variant: workers are spawned whenever the limit leaves room, full queue
\* or not.
GrowthEager ==
    IF size = limit THEN 0
    ELSE Max(0, Min(GrowthBatch, limit - size))

\* Number of workers expand() spawns once p.size > 0 is established.
Growth ==
    IF size = limit THEN 0
    ELSE IF Remaining > 0 THEN 0
    ELSE Max(0, Min(GrowthBatch, limit - size))

\* Variant: expand() without its running check.
NotRunningUnchecked == FALSE

\* expand(): if p.size == 0 { panic("WorkPool is not running") }
NotRunning == size = 0

\* The callbacks a run hands to Add(): those of its callers when the pool
\* is on its own, one per file of the tree when the Exporter feeds it.
AddBound == IF phase = "none" THEN MaxTasks ELSE MaxFiles

\* Variant: expand() returns with the mutex still locked.
ExpandKeepsLock(c) == c

\* expand(): defer p.mutex.Unlock(); the mutex is free when Add() goes on
\* to its send.
ExpandUnlock(c) == 0

\* Add() through p.expand(): lock, check, grow, unlock.
AddExpand(c) ==
    /\ Alive
    /\ pc[c] = "idle"
    /\ nextTask <= AddBound
    /\ mutex = 0
    /\ IF NotRunning
       THEN Panic(PanicNotRunning)
       ELSE /\ size' = size + Growth
            /\ wg' = wg + Growth
            /\ atSelect' = atSelect + Growth
            /\ pc' = [pc EXCEPT ![c] = "add_send"]
            /\ arg' = [arg EXCEPT ![c] = nextTask]
            /\ nextTask' = nextTask + 1
            /\ mutex' = ExpandUnlock(c)
            /\ UNCHANGED <<limit, buffer, queue, cancelled, parentDone,
                           running, panicked, histVars>>

\* Variant: the send never waits for a free slot.
HasRoomAlways == TRUE

\* A send on p.queue completes at once: the buffer has a free slot.
HasRoom == Len(queue.buf) < queue.cap

\* Add() at p.queue <- fn: p.queue is read (without the mutex) and the send
\* attempted: it panics on a closed channel, completes when the buffer has
\* room, and otherwise blocks at the tail of the channel's send queue.
AddSend(c) ==
    /\ Alive
    /\ pc[c] = "add_send"
    /\ IF queue.closed
       THEN Panic(PanicSendClosed)
       ELSE IF HasRoom
       THEN /\ queue' = [queue EXCEPT !.buf = Append(@, arg[c])]
            /\ pc' = [pc EXCEPT ![c] = "idle"]
            /\ arg' = [arg EXCEPT ![c] = 0]
            /\ accepted' = accepted \cup {arg[c]}
            /\ UNCHANGED <<limit, buffer, size, mutex, cancelled, parentDone,
                           wg, workerVars, nextTask, panicked, nexec,
                           discarded, dropped, stopped, restarted, waited,
                           waitSnap, stopQueued, stopInflight>>
       ELSE /\ queue' = [queue EXCEPT !.sendq = Append(@, c)]
            /\ pc' = [pc EXCEPT ![c] = "add_blocked"]
            /\ UNCHANGED <<limit, buffer, size, mutex, cancelled, parentDone,
                           wg, workerVars, arg, nextTask, panicked, histVars>>

\* A sender woken by close() panics.
AddWoken(c) ==
    /\ Alive
    /\ pc[c] = "add_woken"
    /\ Panic(PanicSendClosed)

\* ---------------------------------------------------------------- worker
\* select chooses among its ready cases; with several ready, any of them.

\* case <-p.ctx.Done(): return (deferred p.wg.Done())
WorkerCancel ==
    /\ Alive
    /\ atSelect > 0
    /\ CtxDone
    /\ atSelect' = atSelect - 1
    /\ wg' = wg - 1
    /\ UNCHANGED <<limit, buffer, size, mutex, queue, cancelled, parentDone,
                   running, clientVars, panicked, histVars>>

\* Variant: the received task stays at the head of the buffer.
AfterReceiveKeepsHead == queue

\* The task a receive takes, and the channel it leaves: the head of the
\* buffer is taken, and the value of the first blocked sender, if any,
\* enters the buffer in the same step.
ReceivedNewest == queue.buf[Len(queue.buf)]
Received == Head(queue.buf)
AfterReceive ==
    IF Len(queue.sendq) > 0
    THEN [queue EXCEPT !.buf = Append(Tail(@), arg[Head(queue.sendq)]),
                       !.sendq = Tail(@)]
    ELSE [queue EXCEPT !.buf = Tail(@)]

\* case fn, ok := <-p.queue with ok: fn() is entered.
WorkerReceive ==
    /\ Alive
    /\ atSelect > 0
    /\ Len(queue.buf) > 0
    /\ queue' = AfterReceive
    /\ atSelect' = atSelect - 1
    /\ running' = [running EXCEPT ![Received] = @ + 1]
    /\ nexec' = [nexec EXCEPT ![Received] = @ + 1]
    /\ IF Len(queue.sendq) > 0
       THEN /\ pc' = [pc EXCEPT ![Head(queue.sendq)] = "idle"]
            /\ arg' = [arg EXCEPT ![Head(queue.sendq)] = 0]
            /\ accepted' = accepted \cup {arg[Head(queue.sendq)]}
       ELSE UNCHANGED <<pc, arg, accepted>>
    /\ UNCHANGED <<limit, buffer, size, mutex, cancelled, parentDone, wg,
                   nextTask, panicked, discarded, dropped, stopped, restarted,
                   waited, waitSnap, stopQueued, stopInflight>>

\* Variant: a closed queue ends the loop although tasks are still buffered.
QueueClosedOnly == queue.closed

\* A receive from p.queue yields ok = false: closed, and nothing buffered.
QueueExhausted == queue.closed /\ Len(queue.buf) = 0

\* case fn, ok := <-p.queue with !ok: return (deferred p.wg.Done())
WorkerClosed ==
    /\ Alive
    /\ atSelect > 0
    /\ QueueExhausted
    /\ atSelect' = atSelect - 1
    /\ wg' = wg - 1
    /\ UNCHANGED <<limit, buffer, size, mutex, queue, cancelled, parentDone,
                   running, clientVars, panicked, histVars>>

\* Variant: the worker leaves its loop after the first task.
LoopsBackNever(n) == n

\* worker(): for { select { ... } }: after fn() the worker that ran it is
\* at the select again, with the n workers already there.
LoopsBack(n) == n + 1

\* fn() returns and the worker is back at its select.
WorkerFinish(t) ==
    /\ Alive
    /\ running[t] > 0
    /\ running' = [running EXCEPT ![t] = @ - 1]
    /\ atSelect' = LoopsBack(atSelect)
    /\ UNCHANGED <<poolVars, clientVars, panicked, histVars>>

\* ----------------------------------------------------------- environment
\* The parent context handed to NewWorkPool is cancelled.
ParentCancel ==
    /\ Alive
    /\ ~parentDone
    /\ parentDone' = TRUE
    /\ UNCHANGED <<limit, buffer, size, mutex, queue, cancelled, wg,
                   workerVars, clientVars, panicked, histVars>>

Next ==
    \/ (\E c \in Clients : Start(c)) /\ UNCHANGED expVars
    \/ (\E c \in Clients : StopBegin(c)) /\ UNCHANGED expVars
    \/ (\E c \in Clients : StopFinish(c)) /\ UNCHANGED expVars
    \/ (\E c \in Clients : WaitBegin(c)) /\ UNCHANGED expVars
    \/ (\E c \in Clients : WaitFinish(c)) /\ UNCHANGED expVars
    \/ (\E c \in Clients : AddExpand(c)) /\ UNCHANGED expVars
    \/ (\E c \in Clients : AddSend(c)) /\ UNCHANGED expVars
    \/ (\E c \in Clients : AddWoken(c)) /\ UNCHANGED expVars
    \/ WorkerCancel /\ UNCHANGED expVars
    \/ WorkerReceive /\ UNCHANGED expVars
    \/ WorkerClosed /\ UNCHANGED expVars
    \/ (\E t \in Tasks : WorkerFinish(t)) /\ UNCHANGED expVars
    \/ ParentCancel /\ UNCHANGED expVars

Spec == Init /\ [][Next]_vars

\* The scheduler runs every goroutine that can take a step: a worker at a
\* select with a ready case, a worker inside a terminating fn(), a client
\* inside a pool method.  The clients are free never to call a method.
WorkerStep == WorkerCancel \/ WorkerReceive \/ WorkerClosed
FairSpec ==
    /\ Spec
    /\ WF_vars(WorkerStep /\ UNCHANGED expVars)
    /\ WF_vars((\E t \in Tasks : WorkerFinish(t)) /\ UNCHANGED expVars)
    /\ WF_vars((\E c \in Clients : StopFinish(c) \/ WaitFinish(c)) /\ UNCHANGED expVars)
    /\ WF_vars((\E c \in Clients : AddSend(c) \/ AddWoken(c)) /\ UNCHANGED expVars)

\* The pool used by one goroutine, as Exporter.Run and the tests use it:
\* the methods are called one after the other.
Caller == CHOOSE c \in Clients : \A d \in Clients : c <= d
SeqNext ==
    \/ Start(Caller) /\ UNCHANGED expVars
    \/ StopBegin(Caller) /\ UNCHANGED expVars
    \/ StopFinish(Caller) /\ UNCHANGED expVars
    \/ WaitBegin(Caller) /\ UNCHANGED expVars
    \/ WaitFinish(Caller) /\ UNCHANGED expVars
    \/ AddExpand(Caller) /\ UNCHANGED expVars
    \/ AddSend(Caller) /\ UNCHANGED expVars
    \/ WorkerCancel /\ UNCHANGED expVars
    \/ WorkerReceive /\ UNCHANGED expVars
    \/ WorkerClosed /\ UNCHANGED expVars
    \/ (\E t \in Tasks : WorkerFinish(t)) /\ UNCHANGED expVars
    \/ ParentCancel /\ UNCHANGED expVars

SeqFairSpec ==
    /\ Init
    /\ [][SeqNext]_vars
    /\ WF_vars(WorkerStep /\ UNCHANGED expVars)
    /\ WF_vars((\E t \in Tasks : WorkerFinish(t)) /\ UNCHANGED expVars)
    /\ WF_vars((StopFinish(Caller) \/ WaitFinish(Caller)) /\ UNCHANGED expVars)
    /\ WF_vars(AddSend(Caller) /\ UNCHANGED expVars)

\* The pool used by one goroutine, with limits large enough for expand() to
\* spawn a full batch.
GrowSpec == InitOver(MaxGrowLimit) /\ [][SeqNext]_vars

\* ============================================================== Exporter
\* --------------------------------------------------------------- paths
\* A path is the sequence of its characters, so that the functions of
\* path/filepath and strings are computed on it as the code computes them.
Slash == "/"
Dot == "."

\* What follows the last separator of a path.
RECURSIVE BaseFrom(_, _)
BaseFrom(p, i) ==
    IF i = 0 \/ p[i] = Slash THEN SubSeq(p, i + 1, Len(p)) ELSE BaseFrom(p, i - 1)

\* A path without its trailing separators.
RECURSIVE TrimSlashes(_)
TrimSlashes(p) ==
    IF p # <<>> /\ p[Len(p)] = Slash
    THEN TrimSlashes(SubSeq(p, 1, Len(p) - 1))
    ELSE p

\* Variant: the whole name is taken for its last element.
BaseWhole(p) == p

\* filepath.Base: "." for the empty path, "/" for a path of separators,
\* else the last element, trailing separators removed.
Base(p) ==
    IF p = <<>> THEN <<Dot>>
    ELSE IF TrimSlashes(p) = <<>> THEN <<Slash>>
    ELSE BaseFrom(TrimSlashes(p), Len(TrimSlashes(p)))

\* filepath.Ext: for i := len(path) - 1; i >= 0 && !IsPathSeparator(path[i]); i--
\* { if path[i] == '.' { return path[i:] } }; return ""
RECURSIVE ExtFrom(_, _)
ExtFrom(p, i) ==
    IF i = 0 \/ p[i] = Slash THEN <<>>
    ELSE IF p[i] = Dot THEN SubSeq(p, i, Len(p))
    ELSE ExtFrom(p, i - 1)
Ext(p) == ExtFrom(p, Len(p))

\* strings.HasPrefix
HasPrefix(s, prefix) ==
    Len(s) >= Len(prefix) /\ SubSeq(s, 1, Len(prefix)) = prefix

\* func IsTrashFile(name string) bool
DSStore == <<".", "D", "S", "_", "S", "t", "o", "r", "e">>
AppleDouble == <<".", "_">>
IsTrashFile(name) == Base(name) = DSStore \/ HasPrefix(Base(name), AppleDouble)

\* var InputExtensions
InputExtensions ==
    { <<".", "f", "l", "a", "c">>, <<".", "m", "4", "a">>, <<".", "m", "4", "r">>,
      <<".", "m", "p", "3">>, <<".", "w", "a", "v">> }

\* func IsMediaFile(name string) bool
IsMediaFile(name) == Ext(name) \in InputExtensions

\* The directories os.MkdirAll(path) leaves behind: path and each of its
\* ancestors below the root.
Ancestors(p) ==
    {SubSeq(p, 1, i - 1) : i \in {j \in 1..Len(p) : p[j] = Slash}} \cup {p}

\* --------------------------------------------------------------- trees
\* An input tree is the sequence of its entries in the lexical pre-order
\* in which fs.WalkDir visits them; the first entry is the root ".".
File(p) == [path |-> p, isDir |-> FALSE]
Dir(p) == [path |-> p, isDir |-> TRUE]
Root == <<Dot>>

\* a.mp3, d/, d/b.wav, d/e/
TreeMedia ==
    << Dir(Root), File(<<"a", ".", "m", "p", "3">>), Dir(<<"d">>),
       File(<<"d", "/", "b", ".", "w", "a", "v">>), Dir(<<"d", "/", "e">>) >>

\* ._x.mp3, d/, d/e/, d/e/n.txt
TreeNested ==
    << Dir(Root), File(<<".", "_", "x", ".", "m", "p", "3">>), Dir(<<"d">>),
       Dir(<<"d", "/", "e">>),
       File(<<"d", "/", "e", "/", "n", ".", "t", "x", "t">>) >>

\* a.flac, sub/, sub/b.wav, sub/notes.txt
TreeMixed ==
    << Dir(Root), File(<<"a", ".", "f", "l", "a", "c">>), Dir(<<"s", "u", "b">>),
       File(<<"s", "u", "b", "/", "b", ".", "w", "a", "v">>),
       File(<<"s", "u", "b", "/", "n", "o", "t", "e", "s", ".", "t", "x", "t">>) >>

\* a.mp3, d/, d/b.mp3
TreeAlbum ==
    << Dir(Root), File(<<"a", ".", "m", "p", "3">>), Dir(<<"d">>),
       File(<<"d", "/", "b", ".", "m", "p", "3">>) >>

\* ._a.mp3, a.mp3
TreeSidecar ==
    << Dir(Root), File(<<".", "_", "a", ".", "m", "p", "3">>),
       File(<<"a", ".", "m", "p", "3">>) >>

\* a.flac, a.wav
TreeTwins ==
    << Dir(Root), File(<<"a", ".", "f", "l", "a", "c">>),
       File(<<"a", ".", "w", "a", "v">>) >>

Trees == {TreeMedia, TreeNested, TreeMixed, TreeAlbum, TreeSidecar, TreeTwins}

\* Depth of an entry below the root.
Depth(e) ==
    IF e.path = Root THEN 0
    ELSE 1 + Cardinality({j \in 1..Len(e.path) : e.path[j] = Slash})

\* The first entry after the subtree of entry i.
SubtreeEnd(tree, i) ==
    LET after == {j \in (i + 1)..Len(tree) : Depth(tree[j]) <= Depth(tree[i])}
    IN  IF after = {} THEN Len(tree) + 1
        ELSE CHOOSE j \in after : \A k \in after : j <= k

\* The directories present under the input root.
InputDirs(tree) ==
    {tree[i].path : i \in {j \in 1..Len(tree) : tree[j].isDir /\ tree[j].path # Root}}

\* Variant: visitFile() tests the media extension before the trash names.
VisitFileTaskMediaFirst(e, cu) ==
    IF e.isDir THEN "none"
    ELSE IF e.path = Root THEN "none"
    ELSE IF IsMediaFile(e.path) THEN "convert"
    ELSE IF IsTrashFile(e.path) THEN "none"
    ELSE IF cu /\ ~e.isDir THEN "copy"
    ELSE "none"

\* The closure visitFile() hands to p.pool.Add for entry e, with
\* p.opts.CopyUnknown = cu: the exclusions first, then the media test, then
\* the copy of an unknown file.
VisitFileTask(e, cu) ==
    IF e.isDir THEN "none"
    ELSE IF e.path = Root THEN "none"
    ELSE IF IsTrashFile(e.path) THEN "none"
    ELSE IF IsMediaFile(e.path) THEN "convert"
    ELSE IF cu /\ ~e.isDir THEN "copy"
    ELSE "none"

\* The entries visitFile() submits a task for.
WantsTask(e, cu) == VisitFileTask(e, cu) # "none"
TaskEntries(tree, cu) == {i \in 1..Len(tree) : WantsTask(tree[i], cu)}

\* ------------------------------------------------------ Convert and Copy
\* Values of p.opts.Format that ExporterOptions.Validate() accepts.
FormatMp3 == <<"m", "p", "3">>
FormatM4a == <<"m", "4", "a">>
Formats == {FormatMp3, FormatM4a}

\* Convert(): newExt := "." + p.opts.Format
NewExt(fmt) == <<Dot>> \o fmt

\* Variant: the new extension is appended to the whole input path.
OutputFileAppended(path, fmt) == path \o NewExt(fmt)

\* Convert(): copts.OutputFile, relative to the output root:
\* path[:len(path)-len(oldExt)] + newExt
OutputFile(path, fmt) ==
    SubSeq(path, 1, Len(path) - Len(Ext(path))) \o NewExt(fmt)

\* Variant: Convert() runs the transcoder whatever the extensions.
SameFormatNever(path, fmt) == FALSE

\* Convert(): oldExt == newExt, the file is already in the target format.
SameFormat(path, fmt) == Ext(path) = NewExt(fmt)

\* The path under the output root that the task of kind k for the input
\* file at path writes.
Dest(k, path, fmt) ==
    IF k = "convert" /\ ~SameFormat(path, fmt) THEN OutputFile(path, fmt) ELSE path

\* The task of kind k for the input file at path runs ffmpeg.
Transcodes(k, path, fmt) == k = "convert" /\ ~SameFormat(path, fmt)

\* filepath.Dir on a clean relative path.
RECURSIVE DirFrom(_, _)
DirFrom(p, i) ==
    IF i = 0 THEN Root
    ELSE IF p[i] = Slash THEN SubSeq(p, 1, i - 1)
    ELSE DirFrom(p, i - 1)
DirOf(p) == DirFrom(p, Len(p))

\* Contents of files: the bytes of the input file at entry i, what ffmpeg
\* makes of them for a format, and bytes that were in the output root
\* before the run.
InputData(i) == [src |-> i, enc |-> <<>>]
Transcoded(i, fmt) == [src |-> i, enc |-> fmt]
OldData == [src |-> 0, enc |-> <<>>]

\* The output roots a run can start on: empty, or holding one file, with
\* its directories, where some task of the run will write.
Existing(tree, cu, fmt) ==
    {{}} \cup {{[path |-> Dest(VisitFileTask(tree[i], cu), tree[i].path, fmt),
                data |-> OldData]} : i \in TaskEntries(tree, cu)}

\* -------------------------------------------------------------- faults
\* The filesystem failure of a run: the Stat of the root by fs.WalkDir
\* ("rootstat"), the ReadDir of a directory by fs.WalkDir ("readdir"), the
\* Stat of a directory by visitDir ("stat"), the MkDirAll of its mirror
\* ("mkdir"), the CopyFile of a file ("copyfile") or the ffmpeg run on a file
\* ("ffmpeg").  It strikes entry at of the tree during one pass or both.
Passes == {"dirs", "files", "both"}
DirEntries(tree) == {i \in 1..Len(tree) : tree[i].isDir}
Faults(tree) ==
    {NoFault}
    \cup {[kind |-> "rootstat", pass |-> p, at |-> i] :
            p \in Passes, i \in {j \in DirEntries(tree) : tree[j].path = Root}}
    \cup {[kind |-> "readdir", pass |-> p, at |-> i] :
            p \in Passes, i \in DirEntries(tree)}
    \cup {[kind |-> k, pass |-> "dirs", at |-> i] :
            k \in {"stat", "mkdir"},
            i \in {j \in DirEntries(tree) : tree[j].path # Root}}
    \cup {[kind |-> k, pass |-> "files", at |-> i] :
            k \in {"copyfile", "ffmpeg"},
            i \in (1..Len(tree)) \ DirEntries(tree)}

FaultAt(kind, pass, i) ==
    fault.kind = kind /\ fault.at = i /\ fault.pass \in {pass, "both"}

PanicNil == "invalid memory address or nil pointer dereference"

\* fs.WalkDir after the visit function returned nil for the entry at
\* walkIdx: a directory whose ReadDir failed was reported by a second call
\* of the visit function and, that call returning nil too, the walk goes on
\* past the entries it could not read.
WalkNext(pass) ==
    IF FaultAt("readdir", pass, walkIdx)
    THEN SubtreeEnd(inTree, walkIdx)
    ELSE walkIdx + 1

\* fs.WalkDir hands the visit function an error at the entry at walkIdx.
WalkReports(pass) ==
    FaultAt("rootstat", pass, walkIdx) \/ FaultAt("readdir", pass, walkIdx)

\* The state Run() is built on: newExporter() over some input tree, with
\* an empty output root.
ExportInit ==
    /\ PoolInit(MaxLimit)
    /\ \E tree \in Trees, cu \in BOOLEAN :
        /\ Cardinality(TaskEntries(tree, cu)) <= MaxFiles
        /\ inTree = tree
        /\ copyUnknown = cu
        /\ fault \in Faults(tree)
        /\ format \in Formats
        /\ outFiles \in Existing(tree, cu, format)
    /\ noClobber \in BOOLEAN
    /\ phase = "dirs"
    /\ walkIdx = 1
    /\ outDirs = UNION {Ancestors(DirOf(f.path)) : f \in outFiles} \ {Root}
    /\ runErr = "none"
    /\ reported = FALSE
    /\ taskOf = [t \in Tasks |-> 0]
    /\ taskKind = [t \in Tasks |-> "none"]
    /\ failed = {}
    /\ transcoded = {}

\* -------------------------------------------------------------- visitDir
\* Variant: visitDir() drops the errors of its Stat and MkDirAll.
VisitDirResultDropped(e, i) == "nil"

\* What visitDir(path, d, err) returns for entry e, whatever err is: the
\* parameter is only logged.
VisitDirResult(e, i) ==
    IF ~e.isDir \/ e.path = Root THEN "nil"
    ELSE IF FaultAt("stat", "dirs", i) THEN "stat failed"
    ELSE IF FaultAt("mkdir", "dirs", i) THEN "mkdir failed"
    ELSE "nil"

\* The directories visitDir() creates for entry e.
VisitDirCreates(e, i) ==
    IF e.isDir /\ e.path # Root /\ VisitDirResult(e, i) = "nil"
    THEN Ancestors(e.path) ELSE {}

\* One entry of the first fs.WalkDir of Run(): the call (or, after a failed
\* ReadDir, the two calls) of visitDir for it.  On a failed Stat of the
\* root the entry handed over is nil and d.IsDir() dereferences it.
VisitDir ==
    /\ Alive
    /\ phase = "dirs"
    /\ walkIdx \in 1..Len(inTree)
    /\ reported' = (reported \/ WalkReports("dirs"))
    /\ LET e == inTree[walkIdx]
           res == VisitDirResult(e, walkIdx)
       IN  IF FaultAt("rootstat", "dirs", walkIdx)
           THEN /\ panicked' = PanicNil
                /\ UNCHANGED <<phase, walkIdx, outDirs, runErr>>
           ELSE IF res # "nil"
           THEN /\ phase' = "done"
                /\ runErr' = res
                /\ UNCHANGED <<panicked, walkIdx, outDirs>>
           ELSE /\ outDirs' = outDirs \cup VisitDirCreates(e, walkIdx)
                /\ walkIdx' = WalkNext("dirs")
                /\ UNCHANGED <<panicked, phase, runErr>>
    /\ UNCHANGED <<poolVars, workerVars, clientVars, histVars, inTree,
                   copyUnknown, fault, taskOf, taskKind, format, noClobber,
                   outFiles, failed,
                   transcoded, ctor, trashCall,
                   validateCall>>

\* The first fs.WalkDir of Run() has returned nil.
DirsWalked == walkIdx > Len(inTree)

\* Run() at p.pool.Start(), then the second fs.WalkDir begins.
RunStart ==
    /\ phase = "dirs"
    /\ DirsWalked
    /\ Start(Caller)
    /\ phase' = "files"
    /\ walkIdx' = 1
    /\ UNCHANGED <<inTree, copyUnknown, fault, outDirs, runErr, reported,
                   taskOf, taskKind, format, noClobber, outFiles, failed,
                   transcoded, ctor, trashCall,
                   validateCall>>

\* ------------------------------------------------------------- visitFile
\* One entry of the second fs.WalkDir of Run(): visitFile up to the send of
\* p.pool.Add, when it adds a task.  The err parameter is only logged.
VisitFile ==
    /\ Alive
    /\ phase = "files"
    /\ walkIdx \in 1..Len(inTree)
    /\ pc[Caller] = "idle"
    /\ reported' = (reported \/ WalkReports("files"))
    /\ UNCHANGED <<inTree, copyUnknown, fault, phase, outDirs, runErr,
                   format, noClobber, outFiles, failed,
                   transcoded, ctor, trashCall,
                   validateCall>>
    /\ LET e == inTree[walkIdx]
       IN  IF FaultAt("rootstat", "files", walkIdx)
           THEN /\ panicked' = PanicNil
                /\ UNCHANGED <<poolVars, workerVars, clientVars, histVars,
                               walkIdx, taskOf, taskKind>>
           ELSE IF VisitFileTask(e, copyUnknown) # "none"
           THEN /\ AddExpand(Caller)
                /\ taskOf' = [taskOf EXCEPT ![nextTask] = walkIdx]
                /\ taskKind' = [taskKind EXCEPT
                                    ![nextTask] = VisitFileTask(e, copyUnknown)]
                /\ walkIdx' = WalkNext("files")
           ELSE /\ walkIdx' = WalkNext("files")
                /\ UNCHANGED <<poolVars, workerVars, clientVars, histVars,
                               panicked, taskOf, taskKind>>

\* Run() at p.pool.Wait(): the second fs.WalkDir has returned nil.
RunWait ==
    /\ phase = "files"
    /\ walkIdx > Len(inTree)
    /\ WaitBegin(Caller)
    /\ phase' = "wait"
    /\ UNCHANGED <<inTree, copyUnknown, fault, walkIdx, outDirs, runErr,
                   reported, taskOf, taskKind, format, noClobber, outFiles, failed,
                   transcoded, ctor, trashCall,
                   validateCall>>

\* p.pool.Wait() returns and Run() returns nil.
RunReturn ==
    /\ phase = "wait"
    /\ WaitFinish(Caller)
    /\ phase' = "done"
    /\ runErr' = "nil"
    /\ UNCHANGED <<inTree, copyUnknown, fault, walkIdx, outDirs, reported,
                   taskOf, taskKind, format, noClobber, outFiles, failed,
                   transcoded, ctor, trashCall,
                   validateCall>>

\* ------------------------------------------------------- task execution
FatalExit == "os.Exit(1)"

PathExists(p) == \E f \in outFiles : f.path = p
DirExists(d) == d = Root \/ d \in outDirs

\* The output root after path p was created, or truncated, and filled
\* with the bytes d.
WriteFile(p, d) == {f \in outFiles : f.path # p} \cup {[path |-> p, data |-> d]}

\* What a task can come to: it returns an error, or it returns nil and
\* leaves the output root as files; ran tells whether ffmpeg was started.
Failure(r) == [ok |-> FALSE, files |-> outFiles, ran |-> r]
Success(fs, r) == [ok |-> TRUE, files |-> fs, ran |-> r]

\* Variant: Copy() overwrites whatever p.opts.NoClobber says.
KeepsExistingNever(path) == FALSE

\* Copy(): p.opts.NoClobber is set and the Stat of the destination does
\* not say that it is missing.
KeepsExisting(path) == noClobber /\ PathExists(path)

\* func (p *Exporter) Copy(path string) error, for the file at entry i:
\* CopyFile creates or truncates the destination, which needs its
\* directory, and fills it with the bytes of the source.
CopyOutcomes(i) ==
    LET path == inTree[i].path
    IN  IF KeepsExisting(path) THEN {Success(outFiles, FALSE)}
        ELSE IF FaultAt("copyfile", "files", i) \/ ~DirExists(DirOf(path))
        THEN {Failure(FALSE)}
        ELSE {Success(WriteFile(path, InputData(i)), FALSE)}

\* ffmpeg.ConvertInBackground(p.ctx, &copts) for the file at entry i.  The
\* command is killed when p.ctx is done.  What ffmpeg does about an output
\* file that exists is its own business: with -n it leaves the file, and
\* exits with or without an error; otherwise it overwrites it or gives up.
FfmpegOutcomes(i) ==
    LET dest == OutputFile(inTree[i].path, format)
        done == Success(WriteFile(dest, Transcoded(i, format)), TRUE)
        kept == Success(outFiles, TRUE)
    IN  IF FaultAt("ffmpeg", "files", i) \/ ~DirExists(DirOf(dest))
        THEN {Failure(TRUE)}
        ELSE (IF CtxDone THEN {Failure(TRUE)} ELSE {})
             \cup (IF ~PathExists(dest) THEN {done}
                   ELSE IF noClobber THEN {Failure(TRUE), kept}
                   ELSE {Failure(TRUE), done})

\* func (p *Exporter) Convert(path string) (string, error)
ConvertOutcomes(i) ==
    IF SameFormat(inTree[i].path, format)
    THEN CopyOutcomes(i)
    ELSE FfmpegOutcomes(i)

\* The closure of task t.
TaskOutcomes(t) ==
    IF taskKind[t] = "convert"
    THEN ConvertOutcomes(taskOf[t])
    ELSE CopyOutcomes(taskOf[t])

\* Variant: a task that failed only logs its error.
FatalOnErrorSkipped == FALSE

\* The closures of visitFile(): logging.Fatalf / logging.Fatalln on an
\* error, which end the process.
FatalOnError == TRUE

\* The fn() of task t returns in worker(), or ends the process.
TaskFinish(t) ==
    /\ Alive
    /\ running[t] > 0
    /\ \E o \in TaskOutcomes(t) :
        /\ failed' = IF o.ok THEN failed ELSE failed \cup {t}
        /\ transcoded' = IF o.ran THEN transcoded \cup {taskOf[t]} ELSE transcoded
        /\ outFiles' = o.files
        /\ IF ~o.ok /\ FatalOnError
           THEN /\ panicked' = FatalExit
                /\ UNCHANGED <<poolVars, workerVars, clientVars, histVars>>
           ELSE WorkerFinish(t)
    /\ UNCHANGED <<inTree, copyUnknown, fault, phase, walkIdx, outDirs, runErr,
                   reported, taskOf, taskKind, format, noClobber, ctor,
                   trashCall, validateCall>>

ExportNext ==
    \/ VisitDir
    \/ RunStart
    \/ VisitFile
    \/ AddSend(Caller) /\ UNCHANGED expVars
    \/ RunWait
    \/ RunReturn
    \/ WorkerCancel /\ UNCHANGED expVars
    \/ WorkerReceive /\ UNCHANGED expVars
    \/ WorkerClosed /\ UNCHANGED expVars
    \/ \E t \in Tasks : TaskFinish(t)
    \/ ParentCancel /\ UNCHANGED expVars

\* The export_audio_tree program: newExporter(ctx, opts).Run().
ExportSpec == ExportInit /\ [][ExportNext]_vars

\* The goroutine of Run(): the two walks, its sends, Start() and Wait().
RunStep ==
    \/ VisitDir
    \/ RunStart
    \/ VisitFile
    \/ AddSend(Caller) /\ UNCHANGED expVars
    \/ RunWait
    \/ RunReturn

\* Run() on a healthy filesystem and an empty output root.
HealthyInit == ExportInit /\ fault = NoFault /\ outFiles = {} /\ ~noClobber

\* The scheduler runs every goroutine that can take a step: Run(), a
\* worker at a select with a ready case, a worker inside a task.
ExportFairSpec ==
    /\ HealthyInit
    /\ [][ExportNext]_vars
    /\ WF_vars(RunStep)
    /\ WF_vars(WorkerStep /\ UNCHANGED expVars)
    /\ WF_vars(\E t \in Tasks : TaskFinish(t))

\* ---------------------------------------------------------- construction
MaxCtorLimit == 101 \* largest [limit] argument of the examined NewWorkPool call
ManyCPU == 128      \* runtime.NumCPU() of a large host

\* Variant: the default of the buffer is computed from the limit argument.
BufferLimitRaw(ncpu, l) == l

\* The limit that buffer = max(limit, 100) reads: the variable was
\* reassigned by the default of the limit before.
BufferLimit(ncpu, l) == DefaultLimitOn(ncpu, l)

\* A NewWorkPool(parent, limit, buffer) call about to be made on a host of
\* ncpu CPUs; the variables of the pool hold the zero value of WorkPool.
CtorInit ==
    /\ ctor \in [limit : 0..MaxCtorLimit, buffer : 0..MaxBuffer,
                 ncpu : {NumCPU, ManyCPU}, done : {FALSE}]
    /\ limit = 0
    /\ buffer = 0
    /\ queue = MakeChan(0)
    /\ size = 0
    /\ mutex = 0
    /\ cancelled = FALSE
    /\ parentDone = FALSE
    /\ wg = 0
    /\ NoGoroutines
    /\ NoExporter
    /\ trashCall = NoTrashCall
    /\ validateCall = NoValidateCall

\* func NewWorkPool(parent context.Context, limit int, buffer int) *WorkPool
NewCall ==
    /\ ~ctor.done
    /\ limit' = DefaultLimitOn(ctor.ncpu, ctor.limit)
    /\ buffer' = DefaultBuf(BufferLimit(ctor.ncpu, ctor.limit), ctor.buffer)
    /\ queue' = MakeChan(DefaultBuf(BufferLimit(ctor.ncpu, ctor.limit), ctor.buffer))
    /\ ctor' = [ctor EXCEPT !.done = TRUE]
    /\ UNCHANGED <<size, mutex, cancelled, parentDone, wg, workerVars,
                   clientVars, panicked, histVars, inTree, copyUnknown, fault,
                   phase, walkIdx, outDirs, runErr, reported, taskOf, taskKind,
                   format, noClobber, outFiles, failed, transcoded, trashCall,
                   validateCall>>

CtorNext == NewCall

\* The constructor on its own.
CtorSpec == CtorInit /\ [][CtorNext]_vars

\* ---------------------------------------------------------- trash files
\* Longest base name drawn letter by letter.
MaxBaseLen == 3

\* The characters base names are drawn from.
NameChars == {Dot, "_", "x"}

\* File names of the test of IsTrashFile, and near misses of them.
NamedBases ==
    { DSStore,
      <<".", "_", "D", "S", "_", "S", "t", "o", "r", "e">>,
      <<".", "_", "f", "i", "l", "e", ".", "e", "x", "t">>,
      <<".", "h", "i", "d", "d", "e", "n">>,
      <<".", "D", "S", "_", "S", "t", "o", "r", "e", "x">>,
      <<"x", ".", "D", "S", "_", "S", "t", "o", "r", "e">>,
      <<"D", "S", "_", "S", "t", "o", "r", "e">> }

\* Base names: no separator in them, and not empty.
TrashBases == NamedBases \cup UNION {[1..k -> NameChars] : k \in 1..MaxBaseLen}

\* Directory parts: none, relative, absolute, and ones named like trash.
TrashDirs ==
    { <<>>,
      <<"d", "/">>,
      <<"/", "f", "o", "o", "/", "b", "a", "r", "/">>,
      <<".", "_", "d", "/">>,
      <<".", "D", "S", "_", "S", "t", "o", "r", "e", "/">> }

\* An IsTrashFile(dir + base) call about to be made; no pool exists.
TrashInit ==
    /\ trashCall \in [dir : TrashDirs, base : TrashBases, done : {FALSE},
                      result : {FALSE}]
    /\ ctor = NoCall
    /\ validateCall = NoValidateCall
    /\ limit = 0
    /\ buffer = 0
    /\ queue = MakeChan(0)
    /\ size = 0
    /\ mutex = 0
    /\ cancelled = FALSE
    /\ parentDone = FALSE
    /\ wg = 0
    /\ NoGoroutines
    /\ NoExporter

\* func IsTrashFile(name string) bool
TrashCall ==
    /\ ~trashCall.done
    /\ trashCall' = [trashCall EXCEPT
                        !.done = TRUE,
                        !.result = IsTrashFile(trashCall.dir \o trashCall.base)]
    /\ UNCHANGED <<poolVars, workerVars, clientVars, panicked, histVars,
                   inTree, copyUnknown, fault, phase, walkIdx, outDirs, runErr,
                   reported, taskOf, taskKind, format, noClobber, outFiles,
                   failed, transcoded, ctor, validateCall>>

TrashNext == TrashCall

\* IsTrashFile on its own.
TrashSpec == TrashInit /\ [][TrashNext]_vars

\* ------------------------------------------------------ option validation
\* Directories of the host the roots are chosen among: /p, /p/a, /p/a/n,
\* /p/ab and /p/b.
DirP == <<"/", "p">>
DirA == <<"/", "p", "/", "a">>
DirAN == <<"/", "p", "/", "a", "/", "n">>
DirAB == <<"/", "p", "/", "a", "b">>
DirB == <<"/", "p", "/", "b">>
HostDirs == {DirP, DirA, DirAN, DirAB, DirB}

\* The directories that exist: a directory exists with its parent.
HostStates ==
    {ds \in SUBSET HostDirs :
        /\ DirP \in ds
        /\ DirAN \in ds => DirA \in ds}

\* The positional arguments: a directory of the host, or the empty string.
RootArgs == HostDirs \cup {<<>>}

\* Validate(), its tests of the roots: os.Stat(root) succeeds when root
\* exists; strings.HasPrefix compares the two strings.
ValidateRoots(inRoot, outRoot, exists) ==
    IF inRoot = <<>> THEN "must specify input directory"
    ELSE IF inRoot \notin exists THEN "input directory"
    ELSE IF outRoot = <<>> THEN "must specify output directory"
    ELSE IF outRoot \notin exists THEN "out directory"
    ELSE IF inRoot = outRoot THEN "cowardly refusing to export into itself"
    ELSE IF HasPrefix(outRoot, inRoot)
    THEN "output directory cannot be nested within input directory"
    ELSE "nil"

\* A Validate() call about to be made on options whose other fields are
\* valid; no pool exists.
ValidateInit ==
    /\ validateCall \in [inRoot : RootArgs, outRoot : RootArgs,
                         exists : HostStates, done : {FALSE}, err : {"nil"}]
    /\ ctor = NoCall
    /\ trashCall = NoTrashCall
    /\ limit = 0
    /\ buffer = 0
    /\ queue = MakeChan(0)
    /\ size = 0
    /\ mutex = 0
    /\ cancelled = FALSE
    /\ parentDone = FALSE
    /\ wg = 0
    /\ NoGoroutines
    /\ NoExporter

\* func (opts *ExporterOptions) Validate() error
Validate ==
    /\ ~validateCall.done
    /\ validateCall' = [validateCall EXCEPT
                           !.done = TRUE,
                           !.err = ValidateRoots(validateCall.inRoot,
                                                 validateCall.outRoot,
                                                 validateCall.exists)]
    /\ UNCHANGED <<poolVars, workerVars, clientVars, panicked, histVars,
                   inTree, copyUnknown, fault, phase, walkIdx, outDirs, runErr,
                   reported, taskOf, taskKind, format, noClobber, outFiles,
                   failed, transcoded, ctor, trashCall>>

ValidateNext == Validate

\* Validate() on its own.
ValidateSpec == ValidateInit /\ [][ValidateNext]_vars

\* ================================================================ claims
Idle == mutex = 0 /\ \A c \in Clients : pc[c] = "idle"
WaitReturns == \E c \in Clients : WaitFinish(c)
StopReturns == \E c \in Clients : StopFinish(c) /\ panicked' = NoPanic
Lost == discarded \cup dropped
ExecutedOnce(t) == nexec[t] = 1 /\ running[t] = 0

\* C1 (as stated): when Wait() returns, every task accepted before Wait()
\* was called has been executed exactly once, whenever cancellation comes.
C1_WaitExecutesAll ==
    [][WaitReturns => \A t \in waitSnap : ExecutedOnce(t)']_vars

\* C1 (amended): when Wait() returns and the cancellation signal has not
\* been raised by then, every task accepted before Wait() was called has
\* been executed exactly once.
C1_WaitExecutesAllUncancelled ==
    [][WaitReturns /\ ~CtxDone' => \A t \in waitSnap : ExecutedOnce(t)']_vars

\* C1 witness: an uncancelled Wait() has returned after executing the tasks
\* that were accepted before it was called.
C1_Witness ==
    /\ Idle /\ waited /\ ~CtxDone
    /\ waitSnap # {}
    /\ \A t \in waitSnap : ExecutedOnce(t)

\* C2: no task that was queued when Stop() signalled cancellation is ever
\* executed.
C2_QueuedNeverRun == \A t \in stopQueued : nexec[t] = 0

\* C3: once the cancellation signal is up, no worker starts another task.
C3_NoPickupAfterCancel == [][CtxDone => nexec' = nexec]_vars

\* C4: in a pool started again after Stop(), a task accepted by Add() is
\* eventually executed (unless a later Stop() discards it, the parent
\* context is cancelled or a misuse panic ends the process).
C4_RestartServes ==
    \A t \in Tasks :
        (restarted /\ t \in accepted /\ nexec[t] = 0 /\ t \notin Lost)
            ~> (nexec[t] > 0 \/ t \in discarded \/ parentDone
                \/ panicked # NoPanic)

C6_SizeWithinLimit == 0 <= Size /\ Size <= Limit /\ Live <= Limit

\* C6 witness: Add() has grown the pool up to its limit.
C6_Witness == Size = Limit /\ Live = Limit /\ Limit > InitCount

\* C7: whenever no pool operation is in progress, Size() is the number of
\* live worker loops.
C7_SizeIsLive == Idle => Size = Live

\* C8 (as stated): every accepted task is in exactly one of the states
\* pending, executing, executed once, discarded by Stop().
C8_TaskStates ==
    \A t \in accepted :
        Cardinality({k \in 1..4 :
            \/ k = 1 /\ t \in Pending(queue)
            \/ k = 2 /\ running[t] = 1 /\ nexec[t] = 1
            \/ k = 3 /\ ExecutedOnce(t)
            \/ k = 4 /\ t \in discarded}) = 1

\* C8 (amended): every accepted task is in exactly one of the states
\* pending, executing, executed once, discarded by Stop(), or dropped with
\* the queue that Wait() replaced after the cancellation signal made the
\* workers exit before draining it.
C8_TaskStatesOrDropped ==
    /\ \A t \in accepted :
        Cardinality({k \in 1..5 :
            \/ k = 1 /\ t \in Pending(queue)
            \/ k = 2 /\ running[t] = 1 /\ nexec[t] = 1
            \/ k = 3 /\ ExecutedOnce(t)
            \/ k = 4 /\ t \in discarded
            \/ k = 5 /\ t \in dropped}) = 1
    /\ dropped # {} => CtxDone /\ waited

\* C8 witness: of two accepted tasks one was executed and one discarded by
\* Stop().
C8_Witness ==
    \E t, u \in accepted : ExecutedOnce(t) /\ u \in discarded

\* C9: when Stop() returns no task is executing, and every task that was
\* executing when cancellation was signalled has run to completion.
C9_StopWaitsForInflight ==
    [][StopReturns =>
        /\ InFlight' = {}
        /\ \A t \in stopInflight : ExecutedOnce(t)']_vars

\* C9 witness: Stop() has returned after a task that was in flight when it
\* signalled cancellation.
C9_Witness ==
    stopped /\ Idle /\ \E t \in stopInflight : ExecutedOnce(t)

\* C10: after Stop() returns and until Start() is called, Size() = 0, every
\* Add() fails with the not-running panic and no task is accepted.
C10_StoppedRejectsAdd ==
    /\ [](stopped => Size = 0)
    /\ [][stopped /\ (\E c \in Clients : AddExpand(c))
            => panicked' = PanicNotRunning]_vars
    /\ [][stopped => accepted' = accepted]_vars

\* C10 witness: an Add() on a stopped pool has failed.
C10_Witness == stopped /\ Size = 0 /\ panicked = PanicNotRunning

\* C11: the queue never holds more than queueBound tasks; while an Add() is
\* blocked Remaining() is 0; and a blocked Add() returns only in a step in
\* which a worker receives a task from the queue.
C11_BoundedQueueBlocksAdd ==
    /\ [](Len(queue.buf) <= buffer)
    /\ [](\A c \in Clients : pc[c] = "add_blocked" => Remaining = 0)
    /\ [][\A c \in Clients :
            pc[c] = "add_blocked" /\ pc'[c] = "idle"
                => /\ nexec' # nexec
                   /\ Len(queue.buf) = buffer
                   /\ arg[c] \in Pending(queue')]_vars

\* C11 witness: an Add() is blocked on a full queue of a pool that cannot
\* grow.
C11_Witness ==
    \E c \in Clients : pc[c] = "add_blocked" /\ Remaining = 0 /\ Size = Limit

\* C12: the growth check of an Add() that does not fail spawns
\* min(4, capacity - Size()) workers when Size() < capacity and the queue is
\* full, and none otherwise.
C12_GrowthPolicy ==
    [][AddExpand(Caller) /\ panicked' = NoPanic =>
        /\ size' - size =
              IF size < limit /\ Remaining = 0
              THEN Min(GrowthBatch, limit - size) ELSE 0
        /\ atSelect' - atSelect = size' - size]_vars

\* C12 witness: a full batch was spawned and the limit leaves room for more.
C12_Witness == Size = InitCount + GrowthBatch /\ Size < Limit

\* C13: a Start() that does not fail leaves Size() = min(NumCPU, capacity),
\* with 0 < Size() <= Limit().
C13_StartSize ==
    [][Start(Caller) /\ panicked' = NoPanic =>
        /\ size' = Min(NumCPU, limit)
        /\ 0 < size' /\ size' <= Limit']_vars

\* C13 witness: a pool whose capacity exceeds the CPU count was started
\* again after Stop().
C13_Witness ==
    restarted /\ ~stopped /\ Limit > NumCPU /\ Size = Min(NumCPU, Limit)

\* C14: Add() on a pool with Size() = 0 (never started, or stopped) panics
\* with the not-running error, leaving queue and size as they were, the
\* mutex free and the task not accepted.
C14_AddNotRunning ==
    [][(\E c \in Clients : AddExpand(c)) /\ size = 0 =>
        /\ panicked' = PanicNotRunning
        /\ queue' = queue /\ size' = size /\ mutex' = 0
        /\ accepted' = accepted /\ atSelect' = atSelect]_vars

\* C14 witness: Add() failed on a pool that was never started.
C14_Witness ==
    panicked = PanicNotRunning /\ ~stopped /\ ~waited /\ mutex = 0
        /\ Pending(queue) = {}

\* C15: Start() on a running pool panics and changes nothing: no worker is
\* spawned, Size() and the queue with its pending tasks stay as they were.
C15_StartOnRunning ==
    [][(\E c \in Clients : Start(c)) /\ size > 0 =>
        /\ panicked' = PanicInit
        /\ size' = size /\ queue' = queue
        /\ atSelect' = atSelect /\ wg' = wg]_vars

\* C15 witness: Start() failed on a running pool with a task pending.
C15_Witness == panicked = PanicInit /\ Size > 0 /\ Pending(queue) # {}

\* C16: Stop() on a pool with Size() = 0 (stopped, or never started) panics
\* without signalling cancellation and without closing the queue.
C16_StopOnStopped ==
    [][(\E c \in Clients : StopBegin(c)) /\ size = 0 =>
        /\ panicked' = PanicStop
        /\ cancelled' = cancelled /\ queue' = queue /\ mutex' = 0]_vars

\* C16 witness: Stop() failed on a pool that was never started.
C16_Witness == panicked = PanicStop /\ ~cancelled /\ ~queue.closed

\* C17: once the parent context is cancelled and the worker loops have
\* halted, the pool is in the state Stop() leaves: Size() = 0 and nothing
\* pending in the queue.
C17_ParentCancelStops ==
    parentDone /\ Idle /\ Live = 0 => Size = 0 /\ Pending(queue) = {}

\* Run() has returned nil.
RunSucceeded == phase = "done" /\ runErr = "nil"

\* Some file task has begun executing.
TaskStarted == \E t \in Tasks : nexec[t] > 0

\* C18: no file task begins executing before the directory pass has
\* completed: whenever a task has started, Run() is past its first walk and
\* the output root holds every directory present under the input root.
C18_DirsBeforeTasks ==
    TaskStarted =>
        /\ phase \in {"files", "wait", "done"}
        /\ InputDirs(inTree) \subseteq outDirs

C20_TraversalErrorAborts ==
    reported =>
        /\ panicked = NoPanic
        /\ phase = "done"
        /\ runErr \notin {"none", "nil"}

\* visitDir()'s own Stat or MkDirAll fails for the entry the walk is at.
DirFaultHere ==
    FaultAt("stat", "dirs", walkIdx) \/ FaultAt("mkdir", "dirs", walkIdx)

\* C21: when the Stat of an input directory or the MkDirAll of its mirror
\* fails in the directory pass, Run() returns that error at once; the pool
\* was not started and no file task was submitted or executed.
C21_DirErrorAborts ==
    /\ [][VisitDir /\ DirFaultHere =>
            phase' = "done" /\ runErr' = fault.kind \o " failed"]_vars
    /\ [](runErr \in {"stat failed", "mkdir failed"} =>
            /\ phase = "done"
            /\ Size = 0 /\ Live = 0 /\ wg = 0
            /\ nextTask = 1 /\ accepted = {} /\ ~TaskStarted
            /\ \A t \in Tasks : taskOf[t] = 0)

\* C21 witness: Run() returned the MkDirAll error of a nested directory,
\* its parent already mirrored, with the pool never started.
C21_Witness ==
    runErr = "mkdir failed" /\ outDirs # {} /\ Size = 0 /\ phase = "done"

\* visitFile() returns having added no task.
AddsNothing == nextTask' = nextTask /\ taskOf' = taskOf /\ taskKind' = taskKind

\* visitFile() returns having added exactly one task of kind k for the
\* entry the walk is at.
AddsOne(k) ==
    /\ nextTask' = nextTask + 1
    /\ taskOf' = [taskOf EXCEPT ![nextTask] = walkIdx]
    /\ taskKind' = [taskKind EXCEPT ![nextTask] = k]

\* C22: in the file pass an entry yields at most one task: none for the root,
\* a directory or a trash file (media extension or not), one convert-task
\* for any other media file, and for any other file one copy-task when
\* copy-unknown is enabled, none otherwise; no entry is given two tasks.
C22_FileClassification ==
    /\ [][VisitFile /\ panicked' = NoPanic =>
            LET e == inTree[walkIdx]
            IN  IF e.isDir \/ e.path = Root THEN AddsNothing
                ELSE IF IsTrashFile(e.path) THEN AddsNothing
                ELSE IF IsMediaFile(e.path) THEN AddsOne("convert")
                ELSE IF copyUnknown THEN AddsOne("copy")
                ELSE AddsNothing]_vars
    /\ [](\A t, u \in Tasks : taskOf[t] # 0 /\ taskOf[t] = taskOf[u] => t = u)

\* C22 witness: the file pass over ._x.mp3, d/, d/e/, d/e/n.txt with
\* copy-unknown is over: the one task is the copy of n.txt.
C22_Witness ==
    /\ inTree = TreeNested /\ copyUnknown /\ phase = "wait"
    /\ nextTask = 2 /\ taskKind[1] = "copy" /\ taskOf[1] = Len(TreeNested)

\* C23: once a convert-task or copy-task has failed, the process has ended
\* with a fatal error: the task ran once and is never run again, nothing
\* else happens, and Run() has not returned success.
C23_TaskFailureIsFatal ==
    /\ [](failed # {} =>
            /\ panicked = FatalExit
            /\ ~RunSucceeded
            /\ \A t \in failed : nexec[t] = 1)
    /\ [][failed # {} => nexec' = nexec /\ phase' = phase /\ outFiles' = outFiles]_vars

\* C23 witness: a task failed while Run() was submitting or waiting, and
\* the process ended.
C23_Witness ==
    /\ failed # {} /\ panicked = FatalExit
    /\ phase \in {"files", "wait"}
    /\ \E t \in failed : fault.at = taskOf[t] /\ fault.kind \in {"copyfile", "ffmpeg"}

\* A path without its extension.
Stem(p) == SubSeq(p, 1, Len(p) - Len(Ext(p)))

\* The relative paths of the files under the output root.
OutPaths == {f.path : f \in outFiles}

\* Task t was submitted and its closure has returned without an error.
Finished(t) == taskOf[t] # 0 /\ nexec[t] >= 1 /\ running[t] = 0 /\ t \notin failed

\* The export of a.flac, sub/b.wav, sub/notes.txt to mp3 with copy-unknown
\* has succeeded, on a filesystem without failures and uncancelled.
ScenarioDone ==
    /\ inTree = TreeMixed /\ format = FormatMp3 /\ copyUnknown
    /\ fault = NoFault /\ ~CtxDone /\ RunSucceeded

\* a.mp3, sub/b.mp3, sub/notes.txt
ScenarioOutput ==
    { <<"a", ".", "m", "p", "3">>,
      <<"s", "u", "b", "/", "b", ".", "m", "p", "3">>,
      <<"s", "u", "b", "/", "n", "o", "t", "e", "s", ".", "t", "x", "t">> }

FileEntries == {i \in 1..Len(inTree) : ~inTree[i].isDir}

\* The target format is the extension of every file of the input tree.
AllSameFormat ==
    FileEntries # {} /\ \A i \in FileEntries : Ext(inTree[i].path) = <<".">> \o format

\* The entries the file pass has submitted a task for.
Submitted == {taskOf[t] : t \in {u \in Tasks : taskOf[u] # 0}}

C27_FreshPool ==
    ctor.done /\ ctor.limit > 0 /\ ctor.buffer > 0 =>
        /\ Limit = ctor.limit
        /\ Remaining = ctor.buffer
        /\ PercentFull.num = 0 /\ PercentFull.den > 0
        /\ Size = 0
        /\ Live = 0 /\ wg = 0 /\ ~queue.closed /\ ~CtxDone

\* C27 witness: NewWorkPool(parent, 2, 2) has returned.
C27_Witness ==
    /\ ctor.done /\ ctor.limit = 2 /\ ctor.buffer = 2
    /\ Limit = 2 /\ Remaining = 2 /\ Size = 0

\* C28: NewWorkPool keeps non-zero arguments, turns limit 0 into the CPU
\* count of the host, and turns buffer 0 into max(limit, 100) where limit
\* is the value after its own default.
C28_Defaults ==
    ctor.done =>
        /\ Limit = IF ctor.limit = 0 THEN ctor.ncpu ELSE ctor.limit
        /\ buffer = IF ctor.buffer # 0 THEN ctor.buffer
                    ELSE IF Limit > 100 THEN Limit ELSE 100
        /\ queue.cap = buffer

\* C28 witness: NewWorkPool(parent, 0, 0) on a host of more than 100 CPUs
\* returned a pool whose queue has one slot per CPU.
C28_Witness ==
    /\ ctor.done /\ ctor.limit = 0 /\ ctor.buffer = 0 /\ ctor.ncpu > 100
    /\ Limit = ctor.ncpu /\ buffer = ctor.ncpu

\* C29: in every state Remaining() is the configured buffer less the tasks
\* pending in the current queue, within 0..buffer; PercentFull() is the
\* pending tasks over the buffer, times 100; Start() and Wait() leave a
\* queue of the configured capacity.
C29_QueueAccounting ==
    /\ [](/\ Remaining = buffer - Cardinality(Pending(queue))
          /\ 0 <= Remaining /\ Remaining <= buffer
          /\ PercentFull.num * buffer = Cardinality(Pending(queue)) * 100 * PercentFull.den
          /\ PercentFull.den = buffer)
    /\ [][(\E c \in Clients : Start(c) \/ WaitFinish(c)) /\ panicked' = NoPanic =>
            queue'.cap = buffer /\ buffer' = buffer /\ Remaining' = buffer]_vars

\* C29 witness: Wait() has rebuilt the queue and a task was added since:
\* the queue is part full.
C29_Witness ==
    /\ waited /\ Pending(queue) # {}
    /\ 0 < Remaining /\ Remaining < buffer

\* C30: IsTrashFile(path) is true exactly when the last element of the
\* path is ".DS_Store" or begins with "._", whatever directories lead to
\* it; a hidden file such as ".hidden" is not trash.
C30_TrashFiles ==
    trashCall.done =>
        trashCall.result =
            (\/ trashCall.base = <<".", "D", "S", "_", "S", "t", "o", "r", "e">>
             \/ /\ Len(trashCall.base) >= 2
                /\ trashCall.base[1] = "."
                /\ trashCall.base[2] = "_")

\* An AppleDouble file below an absolute directory was recognised.
C30_Witness ==
    /\ trashCall.done
    /\ trashCall.result
    /\ trashCall.dir = <<"/", "f", "o", "o", "/", "b", "a", "r", "/">>
    /\ trashCall.base = <<".", "_", "f", "i", "l", "e", ".", "e", "x", "t">>

\* A directory lies below another one.
NestedIn(inner, outer) == HasPrefix(inner, outer \o <<Slash>>)

\* Two directories have the same parent.
SideBySide(a, b) == DirOf(a) = DirOf(b)

\* C31: Validate() rejects an empty input or output root, a root that does
\* not exist, an output root equal to the input root and an output root
\* nested within the input root; it accepts any two distinct existing
\* directories that sit side by side under the same parent.
C31_RootValidation ==
    validateCall.done =>
        LET i == validateCall.inRoot
            o == validateCall.outRoot
            ex == validateCall.exists
        IN  /\ (i = <<>> \/ o = <<>> \/ i \notin ex \/ o \notin ex \/ i = o
                    \/ NestedIn(o, i))
                => validateCall.err # "nil"
            /\ (i \in ex /\ o \in ex /\ i # o /\ SideBySide(i, o))
                => validateCall.err = "nil"

\* Client c is inside Stop() or Wait(), at p.wg.Wait().
AtWgWait(c) == pc[c] \in {"stop_wait", "wait_wait"}

\* Client c is inside Add(), at p.queue <- fn.
AtSend(c) == pc[c] \in {"add_send", "add_blocked", "add_woken"}

\* C32 (as stated): the mutex is held only for short, non-blocking
\* critical sections: never while its holder waits for worker loops or
\* in-flight tasks to finish, nor across a send; so while a task runs the
\* mutex is free for Size() and for the growth check of Add().
C32_ShortSections ==
    /\ \A c \in Clients : mutex = c => ~(AtWgWait(c) /\ wg > 0)
    /\ \A c \in Clients : AtSend(c) => mutex # c
    /\ InFlight # {} => mutex = 0

\* C32 (amended): the mutex is never held across a send of Add(), and the
\* only callers that keep it while blocked are Stop() and Wait(), which
\* hold it across p.wg.Wait() until every worker loop has returned.
C32_HeldOnlyAcrossWgWait ==
    /\ [](\A c \in Clients : AtSend(c) => mutex # c)
    /\ [](\A c \in Clients : mutex = c => AtWgWait(c))
    /\ [][\A c \in Clients :
            (mutex = c /\ mutex' = 0) => (pc'[c] = "idle" /\ wg = 0)]_vars

\* Wait() holds the mutex while a task is running and another caller is
\* about to send.
C32_Witness ==
    \E c, d \in Clients :
        /\ mutex = c
        /\ pc[c] = "wait_wait"
        /\ InFlight # {}
        /\ AtSend(d)

\* A send of Add() found the queue closed by a Stop() that has returned.
SentOnStoppedQueue == panicked = PanicSendClosed /\ stopped /\ ~waited

\* Stop() is tearing the pool down: past p.cancel(), not yet returned.
TearingDown == \E c \in Clients : pc[c] = "stop_wait"

\* C33: an Add() concurrent with Stop() either enqueues its task before the
\* teardown begins or fails with the not-running error; it never passes the
\* running check and then sends on the queue that Stop() has closed.
C33_AddAtomicWithStop ==
    /\ [](~SentOnStoppedQueue)
    /\ [][accepted' # accepted => ~TearingDown]_vars

\* Client c is inside Wait().
InWait(c) == pc[c] = "wait_wait"

\* C34: while Wait() is in progress on a running pool no growth check of a
\* concurrent Add() observes Size() = 0, so none fails with the not-running
\* error: Wait() holds the mutex from the close of the queue until the
\* initial workers are spawned again, and returns with Size() > 0.
C34_WaitResetAtomic ==
    /\ [](\A c \in Clients : InWait(c) => mutex = c)
    /\ [][(\E c \in Clients : InWait(c)) => panicked' # PanicNotRunning]_vars
    /\ [][WaitReturns /\ size > 0 => size' > 0 /\ mutex' = 0]_vars

\* Wait() is in progress on a running pool with a task in flight, while
\* another caller has a task to add.
C34_Witness ==
    \E c, d \in Clients :
        /\ c # d
        /\ InWait(c) /\ size > 0 /\ wg > 0 /\ InFlight # {}
        /\ pc[d] = "idle" /\ nextTask <= AddBound /\ Alive

\* Run() has returned, or the process has ended.
RunOver == phase = "done" \/ ~Alive

\* C35: from any point of the file pass, whether or not the cancellation
\* signal is raised from there on, Run() eventually returns or the process
\* terminates: the walker never blocks forever inside Add().
C35_CancelledRunReturns == (phase = "files" /\ ~CtxDone) ~> RunOver

\* The path under the output root that submitted task t writes.
DestOf(t) == Dest(taskKind[t], inTree[taskOf[t]].path, format)

\* C36: within one run no two submitted tasks write to the same output
\* path, so tasks running at the same time never write the same file.
C36_DistinctOutputs ==
    \A t, u \in Tasks :
        (t # u /\ taskOf[t] # 0 /\ taskOf[u] # 0) => DestOf(t) # DestOf(u)

\* C37: with no cancellation and every task terminating, every task that
\* Add() accepted on a running pool is eventually executed, Wait() called
\* or not, and every Add() blocked on a full queue eventually returns
\* (unless a misuse panic ends the process).
C37_AcceptedEventuallyRuns ==
    /\ \A t \in Tasks :
        (t \in accepted /\ nexec[t] = 0)
            ~> (nexec[t] > 0 \/ CtxDone \/ ~Alive)
    /\ (pc[Caller] = "add_blocked") ~> (pc[Caller] = "idle" \/ CtxDone \/ ~Alive)

\* Without Wait() or cancellation, every task was accepted through a queue
\* of one slot and executed.
C37_Witness ==
    /\ Idle /\ Alive /\ ~waited /\ ~CtxDone
    /\ queue.cap = 1
    /\ accepted = 1..MaxTasks
    /\ \A t \in accepted : ExecutedOnce(t)

\* Task t has been picked up by a worker.
PickedUp(t) == nexec[t] > 0

\* C38: with one goroutine calling Add(), so that tasks are numbered in the
\* order in which they were accepted, a task is never picked up before
\* every task submitted earlier to the same queue has been picked up; with
\* a limit of one worker a task starts only after the earlier ones have
\* finished.
C38_Fifo ==
    \A t, u \in Tasks :
        (t < u /\ PickedUp(u) /\ t \notin Lost) =>
            /\ PickedUp(t)
            /\ limit = 1 => running[t] = 0

\* With a limit of one worker the second task is running after the first
\* has finished.
C38_Witness ==
    /\ limit = 1 /\ ~CtxDone
    /\ ExecutedOnce(1) /\ running[2] > 0

\* The pool was constructed and never started: no Start() and no Wait()
\* has returned, no Stop() either.
NeverStarted == size = 0 /\ ~stopped

\* Some client calls Wait().
WaitCalled == \E c \in Clients : WaitBegin(c)

\* C39: on a pool that was constructed but never started Wait() does not
\* fail, does not block, and returns with Size() = min(NumCPU, limit) > 0
\* workers on a fresh queue; on a pool that has been stopped Wait() fails
\* by closing the queue Stop() already closed, and the pool stays stopped.
C39_WaitOutsideRunning ==
    /\ [][NeverStarted /\ WaitCalled => Alive']_vars
    /\ [](\A c \in Clients : InWait(c) /\ NeverStarted => WgWait)
    /\ [][WaitReturns /\ NeverStarted =>
            /\ size' = Min(NumCPU, limit) /\ size' > 0
            /\ atSelect' = size'
            /\ queue' = MakeChan(buffer)
            /\ Alive']_vars
    /\ [][stopped /\ WaitCalled =>
            /\ panicked' = PanicCloseClosed
            /\ size' = 0 /\ stopped']_vars

\* Wait() has failed on a pool that was started and stopped.
C39_Witness ==
    /\ stopped /\ ~waited /\ ~restarted
    /\ panicked = PanicCloseClosed
    /\ size = 0

====
